---- MODULE Spec2Model ----
(***************************************************************************)
(* Model of the search engine of rust-wasm/search-optimizer/src/lib.rs:    *)
(* the document store, the inverted index, the category and tag indexes,   *)
(* and the operations load_documents, search, get_suggestions,             *)
(* batch_score, get_index_stats and clear.                                 *)
(*                                                                         *)
(* The engine is single-threaded and synchronous: the host calls one       *)
(* exported method, the method runs to completion, and the host takes its  *)
(* result before it calls the next one.  last_call and result hold the     *)
(* call that has just completed and what it returned, until Return.        *)
(*                                                                         *)
(* Text is a sequence of characters (one-character strings); an Option is  *)
(* the empty sequence (None) or a one-element sequence (Some); a hash map  *)
(* is a function whose DOMAIN is its key set; a Vec indexed from 0 is a    *)
(* sequence, element i of the Vec being element i+1 of the sequence.       *)
(***************************************************************************)
EXTENDS Integers, Sequences, FiniteSets, TLC

VARIABLES documents, index, category_index, tag_index,
          prev_documents, loads, wiped, last_call, result

vars == <<documents, index, category_index, tag_index,
          prev_documents, loads, wiped, last_call, result>>

\* History variables, read by no operation: prev_documents is the document
\* store as it was before the most recent successful load, loads counts
\* the successful loads since construction or the last clear, and wiped is
\* Some(n) while the engine is as a clear() that followed n loads left it.

engine == <<documents, index, category_index, tag_index>>

(***************************************************************************)
(* Bounds of the model.                                                    *)
(***************************************************************************)
\* largest number of documents in one load payload
MaxDocs == 2
\* largest number of loads between two clears
MaxLoads == 2
\* largest value of the unsigned machine integer (usize), scaled down
UsizeMax == 7
\* largest number of characters of an argument of the edit distance
MaxStrLen == 2
\* largest number of characters of a text given to the tokenizer
MaxTextLen == 4

(***************************************************************************)
(* Characters and strings.                                                 *)
(***************************************************************************)
\* char::to_lowercase, on the characters the model uses
Lower(c) ==
    CASE c = "A" -> "a" [] c = "B" -> "b" [] c = "F" -> "f" [] c = "H" -> "h"
      [] c = "R" -> "r" [] c = "S" -> "s" [] OTHER -> c

\* characters of more than one byte in UTF-8
WideChars == {"é"}

\* char::is_alphanumeric
IsAlphanumeric(c) == c \notin {" ", "-", ",", "!"}

\* number of bytes of the UTF-8 encoding of a character
CharBytes(c) == IF c \in WideChars THEN 2 ELSE 1

RECURSIVE ByteLen(_)
\* str::len: the length of a string in bytes
ByteLen(s) == IF s = <<>> THEN 0 ELSE CharBytes(Head(s)) + ByteLen(Tail(s))

\* str::to_lowercase
ToLowercase(s) == [i \in DOMAIN s |-> Lower(s[i])]

RECURSIVE SplitRuns(_, _, _)
\* str::split on the non-alphanumeric characters: the runs between the
\* separators, empty runs included; the run being read starts at from
\* and the next character to read is at to
SplitRuns(s, from, to) ==
    IF to > Len(s) THEN <<SubSeq(s, from, Len(s))>>
    ELSE IF IsAlphanumeric(s[to])
         THEN SplitRuns(s, from, to + 1)
         ELSE <<SubSeq(s, from, to - 1)>> \o SplitRuns(s, to + 1, to + 1)

\* InvertedIndex::tokenize
tokenize(text) ==
    SelectSeq(SplitRuns(ToLowercase(text), 1, 1),
              LAMBDA s : s # <<>> /\ ByteLen(s) > 1)

Range(s) == {s[i] : i \in DOMAIN s}

RECURSIVE Join(_, _)
\* [String]::join
Join(strs, sep) ==
    IF strs = <<>> THEN <<>>
    ELSE IF Len(strs) = 1 THEN strs[1]
    ELSE strs[1] \o sep \o Join(Tail(strs), sep)

(***************************************************************************)
(* The inverted index.                                                     *)
(***************************************************************************)
\* InvertedIndex::new
NewIndex ==
    [term_documents   |-> <<>>,
     document_terms   |-> <<>>,
     term_frequencies |-> <<>>,
     document_lengths |-> <<>>]

\* the number of occurrences of term in the sequence terms
Count(terms, term) == Cardinality({i \in DOMAIN terms : terms[i] = term})

\* the while loop of add_document: pad a Vec with fill up to index doc_id
PadTo(vec, doc_id, fill) ==
    IF Len(vec) <= doc_id
    THEN vec \o [i \in 1..(doc_id + 1 - Len(vec)) |-> fill]
    ELSE vec

\* add_document recording the frequency of a term only when the term is new
add_document_new_terms_only(ix, doc_id, text) ==
    LET terms        == tokenize(text)
        unique_terms == Range(terms)
        dterms       == PadTo(ix.document_terms, doc_id, {})
        dlens        == PadTo(ix.document_lengths, doc_id, 0)
        td           == ix.term_documents
        tf           == ix.term_frequencies
    IN  [document_terms   |-> [dterms EXCEPT ![doc_id + 1] = unique_terms],
         document_lengths |-> [dlens EXCEPT ![doc_id + 1] = Len(terms)],
         term_documents   |->
             [t \in DOMAIN td \cup unique_terms |->
                 IF t \in unique_terms
                 THEN (IF t \in DOMAIN td THEN td[t] ELSE {}) \cup {doc_id}
                 ELSE td[t]],
         term_frequencies |->
             [t \in DOMAIN tf \cup unique_terms |->
                 IF t \in DOMAIN tf THEN tf[t]
                 ELSE [i \in {doc_id} |-> Count(terms, t)]]]

\* InvertedIndex::add_document
add_document(ix, doc_id, text) ==
    LET terms        == tokenize(text)
        unique_terms == Range(terms)
        dterms       == PadTo(ix.document_terms, doc_id, {})
        dlens        == PadTo(ix.document_lengths, doc_id, 0)
        td           == ix.term_documents
        tf           == ix.term_frequencies
    IN  [document_terms   |-> [dterms EXCEPT ![doc_id + 1] = unique_terms],
         document_lengths |-> [dlens EXCEPT ![doc_id + 1] = Len(terms)],
         term_documents   |->
             [t \in DOMAIN td \cup unique_terms |->
                 IF t \in unique_terms
                 THEN (IF t \in DOMAIN td THEN td[t] ELSE {}) \cup {doc_id}
                 ELSE td[t]],
         term_frequencies |->
             [t \in DOMAIN tf \cup unique_terms |->
                 IF t \in unique_terms
                 THEN LET old == IF t \in DOMAIN tf THEN tf[t] ELSE <<>>
                      IN  [i \in DOMAIN old \cup {doc_id} |->
                              IF i = doc_id THEN Count(terms, t) ELSE old[i]]
                 ELSE tf[t]]]

\* entry(key).or_insert_with(AHashSet::new).insert(id) on an attribute index
BucketInsert(map, key, id) ==
    [k \in DOMAIN map \cup {key} |->
        IF k = key THEN (IF k \in DOMAIN map THEN map[k] ELSE {}) \cup {id}
        ELSE map[k]]

RECURSIVE InsertTags(_, _, _)
\* the loop over doc.tags of load_documents
InsertTags(map, tags, id) ==
    IF tags = <<>> THEN map
    ELSE InsertTags(BucketInsert(map, Head(tags), id), Tail(tags), id)

\* the text load_documents indexes for one document
combined_text(doc) ==
    doc.title \o <<" ">> \o doc.content \o <<" ">> \o Join(doc.tags, <<" ">>)

RECURSIVE LoadLoop(_, _, _)
\* the loop of load_documents over the parsed documents, from position idx
LoadLoop(st, docs, idx) ==
    IF idx >= Len(docs) THEN st
    ELSE LET doc == docs[idx + 1]
         IN  LoadLoop([index          |-> add_document(st.index, idx, combined_text(doc)),
                       category_index |-> BucketInsert(st.category_index, doc.category, idx),
                       tag_index      |-> InsertTags(st.tag_index, doc.tags, idx)],
                      docs, idx + 1)

(***************************************************************************)
(* Matching: edit distance and InvertedIndex::search.                      *)
(***************************************************************************)
Min(a, b) == IF a <= b THEN a ELSE b

RECURSIVE LevInner(_, _, _, _, _)
\* the inner loop of levenshtein_distance over the characters of s2, from
\* position j (0-based); rows are 1-based sequences of len2 + 1 slots
LevInner(c1, s2_chars, j, prev_row, curr_row) ==
    IF j >= Len(s2_chars) THEN curr_row
    ELSE LET cost == IF c1 = s2_chars[j + 1] THEN 0 ELSE 1
             cell == Min(Min(prev_row[j + 2] + 1, curr_row[j + 1] + 1),
                         prev_row[j + 1] + cost)
         IN  LevInner(c1, s2_chars, j + 1, prev_row,
                      [curr_row EXCEPT ![j + 2] = cell])

RECURSIVE LevOuter(_, _, _, _, _)
\* the outer loop of levenshtein_distance over the characters of s1, from
\* position i (0-based); returns prev_row after the last swap
LevOuter(s1_chars, s2_chars, i, prev_row, curr_row) ==
    IF i >= Len(s1_chars) THEN prev_row
    ELSE LET filled == LevInner(s1_chars[i + 1], s2_chars, 0, prev_row,
                                [curr_row EXCEPT ![1] = i + 1])
         IN  LevOuter(s1_chars, s2_chars, i + 1, filled, prev_row)

\* InvertedIndex::levenshtein_distance; len1 and len2 are byte lengths
levenshtein_distance(s1, s2) ==
    LET len1 == ByteLen(s1)
        len2 == ByteLen(s2)
    IN  IF len1 = 0 THEN len2
        ELSE IF len2 = 0 THEN len1
        ELSE LevOuter(s1, s2, 0,
                      [k \in 1..(len2 + 1) |-> k - 1],
                      [k \in 1..(len2 + 1) |-> 0])[len2 + 1]

\* InvertedIndex::search: the documents of one query term
TermMatches(ix, term, fuzzy, distance) ==
    (IF term \in DOMAIN ix.term_documents THEN ix.term_documents[term] ELSE {})
    \cup
    (IF fuzzy
     THEN UNION {ix.term_documents[index_term] :
                   index_term \in {t \in DOMAIN ix.term_documents :
                                     levenshtein_distance(term, t) <= distance}}
     ELSE {})

\* index_search with an empty query matching every indexed document
index_search_match_all(ix, query, fuzzy, distance) ==
    IF tokenize(query) = <<>>
    THEN UNION {ix.term_documents[t] : t \in DOMAIN ix.term_documents}
    ELSE UNION {TermMatches(ix, term, fuzzy, distance) :
                  term \in Range(tokenize(query))}

\* InvertedIndex::search
index_search(ix, query, fuzzy, distance) ==
    UNION {TermMatches(ix, term, fuzzy, distance) : term \in Range(tokenize(query))}

(***************************************************************************)
(* Scores.  An f64 score is a record: nan says it is NaN, v is its value   *)
(* in thousandths.  BM25 is computed in fixed point, the logarithm from a  *)
(* table.                                                                  *)
(***************************************************************************)
Num(v) == [nan |-> FALSE, v |-> v]
NaN == [nan |-> TRUE, v |-> 0]

\* f64 addition and multiplication (factor is a whole number)
FAdd(a, b) == IF a.nan \/ b.nan THEN NaN ELSE Num(a.v + b.v)
FMul(a, factor) == IF a.nan THEN NaN ELSE Num(a.v * factor)
\* a >= b on f64: false when either side is NaN
FGe(a, b) == ~a.nan /\ ~b.nan /\ a.v >= b.v

\* 1000 * ln(k), rounded, for k = 1..15
LnMilli == <<0, 693, 1099, 1386, 1609, 1792, 1946, 2079, 2197, 2303,
             2398, 2485, 2565, 2639, 2708>>

RECURSIVE SumSeq(_)
SumSeq(s) == IF s = <<>> THEN 0 ELSE Head(s) + SumSeq(Tail(s))

\* the contribution idf * normalized_tf of one query term, thousandths;
\* with k1 = 1.2, b = 0.75 and avg = sum/n:
\*   normalized_tf = 220 tf sum / (100 tf sum + 30 sum + 90 len n)
\* and 0/0 = NaN when the lengths sum to 0
TermScore(ix, doc_id, term) ==
    LET doc_freq_map   == ix.term_frequencies[term]
        term_freq      == doc_freq_map[doc_id]
        total_docs     == Len(ix.document_lengths)
        docs_with_term == Cardinality(DOMAIN doc_freq_map)
        doc_length     == ix.document_lengths[doc_id + 1]
        sum            == SumSeq(ix.document_lengths)
        idf            == LnMilli[2 * total_docs - 2 * docs_with_term + 1]
                          - LnMilli[2 * docs_with_term + 1]
    IN  IF sum = 0 THEN NaN
        ELSE Num((idf * 220 * term_freq * sum)
                 \div (100 * term_freq * sum + 30 * sum
                       + 90 * doc_length * total_docs))

RECURSIVE Bm25Loop(_, _, _, _)
\* the loop of calculate_bm25_score over query_terms
Bm25Loop(ix, doc_id, query_terms, score) ==
    IF query_terms = <<>> THEN score
    ELSE LET term == Head(query_terms)
             hit  == /\ term \in DOMAIN ix.term_frequencies
                     /\ doc_id \in DOMAIN ix.term_frequencies[term]
         IN  Bm25Loop(ix, doc_id, Tail(query_terms),
                      IF hit THEN FAdd(score, TermScore(ix, doc_id, term))
                      ELSE score)

\* calculate_bm25_score crediting a document for an indexed term one edit
\* away from a term of the query
calculate_bm25_score_near_miss(ix, doc_id, query_terms) ==
    LET near == \E k \in DOMAIN query_terms :
                    \E t \in DOMAIN ix.term_frequencies :
                        /\ t # query_terms[k]
                        /\ doc_id \in DOMAIN ix.term_frequencies[t]
                        /\ levenshtein_distance(query_terms[k], t) <= 1
    IN  FAdd(Bm25Loop(ix, doc_id, query_terms, Num(0)),
             IF near THEN Num(1000) ELSE Num(0))

\* InvertedIndex::calculate_bm25_score (k1 = 1.2, b = 0.75)
calculate_bm25_score(ix, doc_id, query_terms) ==
    Bm25Loop(ix, doc_id, query_terms, Num(0))

(***************************************************************************)
(* The query pipeline of SearchOptimizer::search.                          *)
(***************************************************************************)
\* the union of the buckets of the requested keys that exist in the map
BucketUnion(map, keys) ==
    UNION {map[k] : k \in Range(keys) \cap DOMAIN map}

\* SearchOptimizer::apply_filters
apply_filters(doc_ids, filters) ==
    LET by_category ==
            IF filters.categories # <<>>
            THEN doc_ids \cap BucketUnion(category_index, filters.categories[1])
            ELSE doc_ids
    IN  IF filters.tags # <<>>
        THEN by_category \cap BucketUnion(tag_index, filters.tags[1])
        ELSE by_category

TitleKey == <<"t", "i", "t", "l", "e">>

\* str::contains
Contains(hay, needle) ==
    \E k \in 0..(Len(hay) - Len(needle)) :
        SubSeq(hay, k + 1, k + Len(needle)) = needle

RECURSIVE BoostTags(_, _, _)
\* the loop of apply_boost over doc.tags
BoostTags(score, tags, boosts) ==
    IF tags = <<>> THEN score
    ELSE BoostTags(IF Head(tags) \in DOMAIN boosts
                   THEN FMul(score, boosts[Head(tags)]) ELSE score,
                   Tail(tags), boosts)

\* SearchOptimizer::apply_boost, for a doc_id inside the document store
apply_boost(doc_id, base_score, boost_fields) ==
    IF boost_fields = <<>> THEN base_score
    ELSE LET boosts == boost_fields[1]
             doc    == documents[doc_id + 1]
             s1 == IF /\ TitleKey \in DOMAIN boosts
                      /\ Contains(ToLowercase(doc.title), ToLowercase(doc.title))
                   THEN FMul(base_score, boosts[TitleKey]) ELSE base_score
             s2 == IF doc.category \in DOMAIN boosts
                   THEN FMul(s1, boosts[doc.category]) ELSE s1
         IN  BoostTags(s2, doc.tags, boosts)

\* the entry set to one in place of being incremented
CountInsertOnce(counts, key) ==
    [k \in DOMAIN counts \cup {key} |-> IF k = key THEN 1 ELSE counts[k]]

\* *counts.entry(key).or_insert(0) += 1
CountInsert(counts, key) ==
    [k \in DOMAIN counts \cup {key} |->
        IF k = key THEN (IF k \in DOMAIN counts THEN counts[k] ELSE 0) + 1
        ELSE counts[k]]

RECURSIVE CountTags(_, _)
CountTags(counts, tags) ==
    IF tags = <<>> THEN counts
    ELSE CountTags(CountInsert(counts, Head(tags)), Tail(tags))

RECURSIVE FacetLoop(_, _)
\* the loop of calculate_facets over scored_docs
FacetLoop(scored_docs, acc) ==
    IF scored_docs = <<>> THEN acc
    ELSE LET doc == documents[Head(scored_docs)[1] + 1]
         IN  FacetLoop(Tail(scored_docs),
                       [categories |-> CountInsert(acc.categories, doc.category),
                        tags       |-> CountTags(acc.tags, doc.tags)])

\* SearchOptimizer::calculate_facets, for doc ids inside the document store
calculate_facets(scored_docs) ==
    FacetLoop(scored_docs, [categories |-> <<>>, tags |-> <<>>])

\* query.fuzzy_distance.unwrap_or(2)
FuzzyDistance(q) == IF q.fuzzy_distance = <<>> THEN 2 ELSE q.fuzzy_distance[1]

\* the candidate ids of a query after the match and filter stages
MatchingIds(q) ==
    LET matching_ids == index_search(index, q.query, q.fuzzy, FuzzyDistance(q))
    IN  IF q.filters # <<>> THEN apply_filters(matching_ids, q.filters[1])
        ELSE matching_ids

\* the scoring stage indexes document_lengths, and the document store when
\* boosts are given; an id outside them panics
ScoringPanics(q) ==
    \E doc_id \in MatchingIds(q) :
        \/ doc_id >= Len(index.document_lengths)
        \/ q.boost_fields # <<>> /\ doc_id >= Len(documents)

\* the boosted score of a candidate
ScoreOf(q, doc_id) ==
    apply_boost(doc_id,
                calculate_bm25_score(index, doc_id, tokenize(q.query)),
                q.boost_fields)

\* the threshold compared with the score before the boosts
RetainedIdsBeforeBoost(q) ==
    IF q.filters # <<>> /\ q.filters[1].score_threshold # <<>>
    THEN {doc_id \in MatchingIds(q) :
            FGe(calculate_bm25_score(index, doc_id, tokenize(q.query)),
                q.filters[1].score_threshold[1])}
    ELSE MatchingIds(q)

\* the candidates the score threshold retains
RetainedIds(q) ==
    IF q.filters # <<>> /\ q.filters[1].score_threshold # <<>>
    THEN {doc_id \in MatchingIds(q) :
            FGe(ScoreOf(q, doc_id), q.filters[1].score_threshold[1])}
    ELSE MatchingIds(q)

\* partial_cmp(..).unwrap() panics on NaN; a sort of two or more elements
\* compares every element
SortPanics(q) ==
    /\ Cardinality(RetainedIds(q)) >= 2
    /\ \E doc_id \in RetainedIds(q) : ScoreOf(q, doc_id).nan

Perms(S) ==
    {s \in [1..Cardinality(S) -> S] :
        \A i, j \in DOMAIN s : i # j => s[i] # s[j]}

\* the sort comparing a with b instead of b with a
SortedOrdersAscending(q) ==
    LET ids   == RetainedIds(q)
        score == [doc_id \in ids |-> ScoreOf(q, doc_id)]
    IN  {s \in Perms(ids) :
            \A i \in 1..(Len(s) - 1) :
                score[s[i]].nan \/ score[s[i + 1]].nan
                \/ score[s[i]].v <= score[s[i + 1]].v}

\* the outcomes of the stable descending sort: the hash set hands over the
\* candidates in any order, so equal scores end up in any order
SortedOrders(q) ==
    LET ids   == RetainedIds(q)
        score == [doc_id \in ids |-> ScoreOf(q, doc_id)]
    IN  {s \in Perms(ids) :
            \A i \in 1..(Len(s) - 1) :
                score[s[i]].nan \/ score[s[i + 1]].nan
                \/ score[s[i]].v >= score[s[i + 1]].v}

\* query.offset.min(total)
StartIdx(q, total) == Min(q.offset, total)

\* start_idx + query.limit exceeds the machine integer: a panic in a build
\* with overflow checks, a wrapped sum otherwise
AddOverflows(q, total) == StartIdx(q, total) + q.limit > UsizeMax

\* (start_idx + query.limit).min(total), the sum wrapped
EndIdx(q, total) ==
    Min((StartIdx(q, total) + q.limit) % (UsizeMax + 1), total)

Panic == [kind |-> "panic", count |-> 0, documents |-> <<>>, total |-> 0,
          facets |-> <<>>, scored_docs |-> <<>>, value |-> <<>>]
Err == [kind |-> "err", count |-> 0, documents |-> <<>>, total |-> 0,
        facets |-> <<>>, scored_docs |-> <<>>, value |-> <<>>]
\* a call that returns nothing but success
EmptyOk == [kind |-> "ok", count |-> 0, documents |-> <<>>, total |-> 0,
            facets |-> <<>>, scored_docs |-> <<>>, value |-> <<>>]

\* SearchOptimizer::search on a parsed query, order being the outcome of the
\* sort
SearchOutcome(q, order) ==
    LET scored_docs == [i \in DOMAIN order |-> <<order[i], ScoreOf(q, order[i])>>]
        total       == Len(scored_docs)
        start_idx   == StartIdx(q, total)
        end_idx     == EndIdx(q, total)
        page        == SubSeq(scored_docs, start_idx + 1, end_idx)
    IN  IF \/ AddOverflows(q, total)
           \/ start_idx > end_idx
           \/ \E i \in DOMAIN page : page[i][1] >= Len(documents)
           \/ /\ q.filters # <<>>
              /\ \E i \in DOMAIN scored_docs : scored_docs[i][1] >= Len(documents)
        THEN Panic
        ELSE [kind        |-> "ok",
              count       |-> 0,
              documents   |-> [i \in DOMAIN page |->
                                 [documents[page[i][1] + 1]
                                    EXCEPT !.score = page[i][2]]],
              total       |-> total,
              facets      |-> IF q.filters # <<>>
                              THEN <<calculate_facets(scored_docs)>> ELSE <<>>,
              scored_docs |-> scored_docs,
              value       |-> <<>>]

(***************************************************************************)
(* get_suggestions, batch_score and get_index_stats.                       *)
(***************************************************************************)
\* str::starts_with
StartsWith(term, prefix) ==
    Len(prefix) <= Len(term) /\ SubSeq(term, 1, Len(prefix)) = prefix

\* the indexed terms that start with the lowercased prefix
PrefixTerms(prefix) ==
    {term \in DOMAIN index.term_documents :
        StartsWith(term, ToLowercase(prefix))}

\* limit * 2 exceeds the machine integer: a panic in a build with overflow
\* checks, a wrapped product otherwise
MulOverflows(limit) == limit * 2 > UsizeMax

\* limit * 2, the product wrapped
SuggestionCap(limit) == (limit * 2) % (UsizeMax + 1)

\* the sets the collecting loop of get_suggestions can end with: the key
\* set is walked in any order and the loop breaks once limit * 2 terms
\* are collected, the test coming after the insertion
CollectedSets(prefix, limit) ==
    LET matching == PrefixTerms(prefix)
        cap      == IF SuggestionCap(limit) = 0 THEN 1 ELSE SuggestionCap(limit)
        size     == Min(Cardinality(matching), cap)
    IN  {S \in SUBSET matching : Cardinality(S) = size}

\* the number of documents of an indexed term
DocCount(term) == Cardinality(index.term_documents[term])

RECURSIVE TopTerms(_, _)
\* the first k terms of the outcomes of the stable sort of S by document
\* count, descending: equal counts end up in any order
TopTerms(S, k) ==
    IF k = 0 \/ S = {} THEN {<<>>}
    ELSE UNION {{<<t>> \o rest : rest \in TopTerms(S \ {t}, k - 1)} :
                  t \in {x \in S : \A y \in S : DocCount(x) >= DocCount(y)}}

\* SearchOptimizer::get_suggestions: the results it can return
SuggestOutcomes(prefix, limit) ==
    LET wrapped == {[EmptyOk EXCEPT !.value = terms] :
                      terms \in UNION {TopTerms(S, limit) :
                                         S \in CollectedSets(prefix, limit)}}
    IN  IF PrefixTerms(prefix) # {} /\ MulOverflows(limit)
        THEN wrapped \cup {Panic}
        ELSE wrapped

\* the candidates of one query of batch_score
BatchIds(query_str) == index_search(index, query_str, FALSE, 0)

\* the score batch_score gives a candidate
BatchScoreOf(query_str, doc_id) ==
    calculate_bm25_score(index, doc_id, tokenize(query_str))

\* batch_score indexes document_lengths and the document store with every
\* candidate, and its sort unwraps partial_cmp
BatchPanics(queries) ==
    \E k \in DOMAIN queries :
        \/ \E doc_id \in BatchIds(queries[k]) :
              \/ doc_id >= Len(index.document_lengths)
              \/ doc_id >= Len(documents)
        \/ /\ Cardinality(BatchIds(queries[k])) >= 2
           /\ \E doc_id \in BatchIds(queries[k]) :
                 BatchScoreOf(queries[k], doc_id).nan

\* the outcomes of the stable descending sort of the candidates of a query
BatchOrders(query_str) ==
    LET ids   == BatchIds(query_str)
        score == [doc_id \in ids |-> BatchScoreOf(query_str, doc_id)]
    IN  {s \in Perms(ids) :
            \A i \in 1..(Len(s) - 1) :
                score[s[i]].nan \/ score[s[i + 1]].nan
                \/ score[s[i]].v >= score[s[i + 1]].v}

\* the pairs carrying the score the documents were loaded with
BatchListStoredScore(query_str, order) ==
    [i \in DOMAIN order |->
        <<documents[order[i] + 1].id, documents[order[i] + 1].score>>]

\* the list batch_score returns for one query, order being the outcome of
\* the sort: pairs of external document id and score
BatchList(query_str, order) ==
    [i \in DOMAIN order |->
        <<documents[order[i] + 1].id, BatchScoreOf(query_str, order[i])>>]

\* SearchOptimizer::batch_score on parsed queries: the results it can return
BatchOutcomes(queries) ==
    IF BatchPanics(queries) THEN {Panic}
    ELSE {[EmptyOk EXCEPT !.value =
              [k \in DOMAIN queries |-> BatchList(queries[k], orders[k])]] :
            orders \in {f \in [DOMAIN queries ->
                                 UNION {BatchOrders(queries[k]) : k \in DOMAIN queries}] :
                          \A k \in DOMAIN queries : f[k] \in BatchOrders(queries[k])}}

\* SearchOptimizer::get_index_stats; the average length in thousandths
IndexStats ==
    [total_documents     |-> Len(documents),
     total_terms         |-> Cardinality(DOMAIN index.term_documents),
     avg_document_length |->
         IF index.document_lengths = <<>> THEN 0
         ELSE (1000 * SumSeq(index.document_lengths))
              \div Len(index.document_lengths),
     categories          |-> Cardinality(DOMAIN category_index),
     tags                |-> Cardinality(DOMAIN tag_index)]

(***************************************************************************)
(* The inputs of the model: documents, load payloads and queries.          *)
(***************************************************************************)
None == <<>>
Some(x) == <<x>>

T_house == <<"h", "o", "u", "s", "e">>
T_hous == <<"h", "o", "u", "s">>
T_flat == <<"f", "l", "a", "t">>
T_garden == <<"g", "a", "r", "d", "e", "n">>
T_sale == <<"s", "a", "l", "e">>
T_redflat == <<"R", "e", "d", " ", "F", "l", "a", "t">>
T_single == <<"a">>
T_housflat == T_hous \o <<" ">> \o T_flat

DocA == [id |-> <<"a">>, title |-> <<"R", "e", "d", " ", "H", "o", "u", "s", "e">>, content |-> <<>>,
         tags |-> <<T_garden>>, category |-> T_house, score |-> Num(0)]
DocB == [id |-> <<"b">>, title |-> <<"B", "l", "u", "e", " ", "F", "l", "a", "t">>, content |-> <<>>,
         tags |-> <<>>, category |-> T_flat, score |-> Num(0)]
DocC == [id |-> <<"c">>, title |-> <<"F", "l", "a", "t">>, content |-> <<"R", "e", "d", " ", "F", "l", "a", "t">>,
         tags |-> <<T_garden, T_sale, T_garden>>, category |-> T_flat,
         score |-> Num(5000)]

DocPool == {DocA, DocB, DocC}

\* the sequences of at most n elements of S
SeqsUpTo(S, n) == UNION {[1..k -> S] : k \in 0..n}

\* a payload that fails to parse
BadPayload == [ok |-> FALSE, docs |-> <<>>]

\* the place of a document of the pool in the payloads
DocRank(doc) == IF doc = DocA THEN 1 ELSE IF doc = DocB THEN 2 ELSE 3

\* the payloads: at most MaxDocs different documents of the pool, listed in
\* the order a, b, c, and the payload that fails to parse
Payloads ==
    {[ok |-> TRUE, docs |-> d] :
        d \in {s \in SeqsUpTo(DocPool, MaxDocs) :
                  \A i, j \in DOMAIN s :
                      i < j => DocRank(s[i]) < DocRank(s[j])}}
    \cup {BadPayload}

Filters(categories, tags, score_threshold) ==
    [categories |-> categories, tags |-> tags, date_range |-> None,
     score_threshold |-> score_threshold]

FilterPool ==
    {Filters(None, None, None),
     Filters(Some(<<T_house>>), None, None),
     Filters(Some(<<T_flat>>), None, None),
     Filters(Some(<<T_house, T_flat>>), None, None),
     Filters(Some(<<>>), None, None),
     Filters(None, Some(<<T_garden>>), None),
     Filters(Some(<<T_flat>>), Some(<<T_garden>>), None),
     Filters(Some(<<T_flat>>), Some(<<T_sale, T_garden>>), None),
     Filters(None, None, Some(Num(0)))}

BoostPool ==
    {[k \in {TitleKey} |-> 2],
     [k \in {T_flat, T_garden} |-> IF k = T_flat THEN 3 ELSE 0]}

Query(query, filters, limit, offset, boost_fields, fuzzy, fuzzy_distance) ==
    [ok |-> TRUE, query |-> query, filters |-> filters, limit |-> limit,
     offset |-> offset, boost_fields |-> boost_fields, fuzzy |-> fuzzy,
     fuzzy_distance |-> fuzzy_distance]

\* a query that fails to parse
BadQuery == [ok |-> FALSE, query |-> <<>>, filters |-> None, limit |-> 0,
             offset |-> 0, boost_fields |-> None, fuzzy |-> FALSE,
             fuzzy_distance |-> None]

PageSizes == {0, 1, UsizeMax}

\* queries that vary the text and the fuzzy mode
MatchQueries ==
    {Query(t, None, UsizeMax, 0, None, FALSE, None) :
        t \in {<<>>, T_single, T_house, T_hous, T_flat, T_garden, T_redflat}}
    \cup
    {Query(t, None, UsizeMax, 0, None, TRUE, d) :
        t \in {<<>>, T_single, T_hous}, d \in {None, Some(1), Some(0)}}

\* the limit whose double is one more than the largest machine integer
HalfUsize == (UsizeMax + 1) \div 2

\* the arguments of get_suggestions: a prefix and a limit
SuggestInputs ==
    {<<prefix, limit>> : prefix \in {<<>>, <<"F">>}, limit \in {0, 1, 2}}
    \cup {<<<<>>, HalfUsize>>, <<<<"F">>, UsizeMax>>, <<<<"x">>, 1>>}

\* a batch that fails to parse as a list of strings
BadBatch == [ok |-> FALSE, queries |-> <<>>]

\* the arguments of batch_score
BatchPayloads ==
    {[ok |-> TRUE, queries |-> qs] :
        qs \in {<<>>, <<T_flat>>, <<T_redflat, T_house>>, <<<<>>, T_garden>>}}
    \cup {BadBatch}

\* queries that vary the page
PageQueries ==
    {Query(T_flat, None, l, o, None, FALSE, None) :
        l \in PageSizes, o \in PageSizes}
    \cup
    {Query(t, Some(Filters(None, None, None)), l, 0, None, FALSE, None) :
        t \in {<<>>, T_flat}, l \in {0, 1}}
    \cup
    {Query(T_redflat, None, 1, o, None, FALSE, None) : o \in {0, 1}}

\* queries that vary the filters
FilterQueries ==
    {Query(T_redflat, Some(fl), UsizeMax, 0, None, FALSE, None) :
        fl \in FilterPool}

\* queries that vary the boosts
BoostQueries ==
    {Query(T_redflat, fl, UsizeMax, 0, Some(b), FALSE, None) :
        b \in BoostPool,
        fl \in {None, Some(Filters(None, None, Some(Num(0))))}}

\* fuzzy queries with a term no document contains, with boosts and with a
\* score threshold above 0
FuzzyQueries ==
    {Query(t, fl, UsizeMax, 0, Some(b), TRUE, Some(1)) :
        t \in {T_hous, T_housflat},
        fl \in {None, Some(Filters(None, None, Some(Num(1))))},
        b \in BoostPool}

Queries ==
    MatchQueries \cup PageQueries \cup FilterQueries \cup BoostQueries
    \cup FuzzyQueries \cup {BadQuery}

(***************************************************************************)
(* The state machine.                                                      *)
(***************************************************************************)
\* no call is in progress or waiting to be taken
Idle == [op |-> "idle", ok |-> TRUE, query |-> BadQuery, payload |-> <<>>,
         arg |-> <<>>]

\* SearchOptimizer::new
Init ==
    /\ documents = <<>>
    /\ index = NewIndex
    /\ category_index = <<>>
    /\ tag_index = <<>>
    /\ prev_documents = <<>>
    /\ loads = 0
    /\ wiped = None
    /\ last_call = [Idle EXCEPT !.op = "new"]
    /\ result = EmptyOk

\* let count = documents.len()
LoadCount(docs) == Len(docs)

\* load_documents emptying the engine before it parses the payload
LoadClearingFirst(p) ==
    /\ last_call.op = "idle"
    /\ p.ok => loads < MaxLoads
    /\ last_call' = [Idle EXCEPT !.op = "load", !.ok = p.ok, !.payload = p.docs]
    /\ IF ~p.ok
       THEN /\ result' = Err
            /\ documents' = <<>>
            /\ index' = NewIndex
            /\ category_index' = <<>>
            /\ tag_index' = <<>>
            /\ UNCHANGED <<prev_documents, loads, wiped>>
       ELSE LET st == LoadLoop([index |-> NewIndex,
                                category_index |-> <<>>,
                                tag_index |-> <<>>], p.docs, 0)
            IN  /\ index' = st.index
                /\ category_index' = st.category_index
                /\ tag_index' = st.tag_index
                /\ documents' = p.docs
                /\ prev_documents' = documents
                /\ loads' = loads + 1
                /\ wiped' = None
                /\ result' = [EmptyOk EXCEPT !.count = LoadCount(p.docs)]

\* SearchOptimizer::load_documents
Load(p) ==
    /\ last_call.op = "idle"
    /\ p.ok => loads < MaxLoads
    /\ last_call' = [Idle EXCEPT !.op = "load", !.ok = p.ok, !.payload = p.docs]
    /\ IF ~p.ok
       THEN /\ result' = Err
            /\ UNCHANGED <<documents, index, category_index, tag_index,
                           prev_documents, loads, wiped>>
       ELSE LET st == LoadLoop([index |-> index,
                                category_index |-> category_index,
                                tag_index |-> tag_index], p.docs, 0)
            IN  /\ index' = st.index
                /\ category_index' = st.category_index
                /\ tag_index' = st.tag_index
                /\ documents' = p.docs
                /\ prev_documents' = documents
                /\ loads' = loads + 1
                /\ wiped' = None
                /\ result' = [EmptyOk EXCEPT !.count = LoadCount(p.docs)]

\* a search that writes the computed scores into the stored documents
SearchStoringScores(q) ==
    /\ last_call.op = "idle"
    /\ last_call' = [Idle EXCEPT !.op = "search", !.ok = q.ok, !.query = q]
    /\ UNCHANGED <<index, category_index, tag_index,
                   prev_documents, loads, wiped>>
    /\ IF ~q.ok THEN result' = Err /\ UNCHANGED documents
       ELSE IF ScoringPanics(q) THEN result' = Panic /\ UNCHANGED documents
       ELSE IF SortPanics(q) THEN result' = Panic /\ UNCHANGED documents
       ELSE /\ \E order \in SortedOrders(q) :
                  result' = SearchOutcome(q, order)
            /\ documents' =
                  [i \in DOMAIN documents |->
                      IF i - 1 \in RetainedIds(q)
                      THEN [documents[i] EXCEPT !.score = ScoreOf(q, i - 1)]
                      ELSE documents[i]]

\* SearchOptimizer::search
Search(q) ==
    /\ last_call.op = "idle"
    /\ last_call' = [Idle EXCEPT !.op = "search", !.ok = q.ok, !.query = q]
    /\ UNCHANGED <<documents, index, category_index, tag_index,
                   prev_documents, loads, wiped>>
    /\ IF ~q.ok THEN result' = Err
       ELSE IF ScoringPanics(q) THEN result' = Panic
       ELSE IF SortPanics(q) THEN result' = Panic
       ELSE \E order \in SortedOrders(q) : result' = SearchOutcome(q, order)

\* clear emptying the document store only
ClearDocumentsOnly ==
    /\ last_call.op = "idle"
    /\ last_call' = [Idle EXCEPT !.op = "clear"]
    /\ documents' = <<>>
    /\ prev_documents' = <<>>
    /\ loads' = 0
    /\ wiped' = Some(loads)
    /\ result' = EmptyOk
    /\ UNCHANGED <<index, category_index, tag_index>>

\* clear leaving the tag index as it is
ClearKeepingTags ==
    /\ last_call.op = "idle"
    /\ last_call' = [Idle EXCEPT !.op = "clear"]
    /\ documents' = <<>>
    /\ index' = NewIndex
    /\ category_index' = <<>>
    /\ prev_documents' = <<>>
    /\ loads' = 0
    /\ wiped' = Some(loads)
    /\ result' = EmptyOk
    /\ UNCHANGED tag_index

\* SearchOptimizer::clear
Clear ==
    /\ last_call.op = "idle"
    /\ last_call' = [Idle EXCEPT !.op = "clear"]
    /\ documents' = <<>>
    /\ index' = NewIndex
    /\ category_index' = <<>>
    /\ tag_index' = <<>>
    /\ prev_documents' = <<>>
    /\ loads' = 0
    /\ wiped' = Some(loads)
    /\ result' = EmptyOk

\* the completed call returns to the host, which takes the result
\* SearchOptimizer::get_suggestions(prefix, limit)
Suggest(prefix, limit) ==
    /\ last_call.op = "idle"
    /\ last_call' = [Idle EXCEPT !.op = "suggest", !.arg = <<prefix, limit>>]
    /\ UNCHANGED <<documents, index, category_index, tag_index,
                   prev_documents, loads, wiped>>
    /\ \E outcome \in SuggestOutcomes(prefix, limit) : result' = outcome

\* SearchOptimizer::batch_score(queries_json)
BatchScore(b) ==
    /\ last_call.op = "idle"
    /\ last_call' = [Idle EXCEPT !.op = "batch_score", !.ok = b.ok,
                                 !.arg = b.queries]
    /\ UNCHANGED <<documents, index, category_index, tag_index,
                   prev_documents, loads, wiped>>
    /\ IF ~b.ok THEN result' = Err
       ELSE \E outcome \in BatchOutcomes(b.queries) : result' = outcome

\* SearchOptimizer::get_index_stats()
Stats ==
    /\ last_call.op = "idle"
    /\ last_call' = [Idle EXCEPT !.op = "stats"]
    /\ UNCHANGED <<documents, index, category_index, tag_index,
                   prev_documents, loads, wiped>>
    /\ result' = [EmptyOk EXCEPT !.value = IndexStats]

Return ==
    /\ last_call.op # "idle"
    /\ last_call' = Idle
    /\ result' = EmptyOk
    /\ UNCHANGED <<documents, index, category_index, tag_index,
                   prev_documents, loads, wiped>>

Next ==
    \/ \E p \in Payloads : Load(p)
    \/ \E q \in Queries : Search(q)
    \/ \E a \in SuggestInputs : Suggest(a[1], a[2])
    \/ \E b \in BatchPayloads : BatchScore(b)
    \/ Stats
    \/ Clear
    \/ Return

Spec == Init /\ [][Next]_vars

(***************************************************************************)
(* The edit distance as a function of its arguments: the initial states    *)
(* hold the two strings, the one action applies the function.              *)
(***************************************************************************)
\* the characters of the arguments, one of them of two bytes
DistanceChars == {"a", "b"} \cup WideChars

\* the arguments of levenshtein_distance
DistanceInputs ==
    {<<s1, s2>> : s1 \in SeqsUpTo(DistanceChars, MaxStrLen),
                  s2 \in SeqsUpTo(DistanceChars, MaxStrLen)}

LevInit ==
    /\ documents = <<>>
    /\ index = NewIndex
    /\ category_index = <<>>
    /\ tag_index = <<>>
    /\ prev_documents = <<>>
    /\ loads = 0
    /\ wiped = None
    /\ result = EmptyOk
    /\ \E a \in DistanceInputs :
          last_call = [Idle EXCEPT !.op = "distance_input", !.arg = a]

\* InvertedIndex::levenshtein_distance(s1, s2)
Distance ==
    /\ last_call.op = "distance_input"
    /\ last_call' = [last_call EXCEPT !.op = "distance"]
    /\ result' = [EmptyOk EXCEPT !.value =
                     levenshtein_distance(last_call.arg[1], last_call.arg[2])]
    /\ UNCHANGED <<documents, index, category_index, tag_index,
                   prev_documents, loads, wiped>>

LevNext == Distance

LevSpec == LevInit /\ [][LevNext]_vars

(***************************************************************************)
(* The tokenizer as a function of its argument.                            *)
(***************************************************************************)
\* the characters of the texts: a lowercase and an uppercase letter, a
\* letter of two bytes and a separator
TextChars == {"a", "B", " "} \cup WideChars

\* the arguments of tokenize
TextInputs == SeqsUpTo(TextChars, MaxTextLen)

TokInit ==
    /\ documents = <<>>
    /\ index = NewIndex
    /\ category_index = <<>>
    /\ tag_index = <<>>
    /\ prev_documents = <<>>
    /\ loads = 0
    /\ wiped = None
    /\ result = EmptyOk
    /\ \E text \in TextInputs :
          last_call = [Idle EXCEPT !.op = "tokenize_input", !.arg = text]

\* InvertedIndex::tokenize(text)
Tokenize ==
    /\ last_call.op = "tokenize_input"
    /\ last_call' = [last_call EXCEPT !.op = "tokenize"]
    /\ result' = [EmptyOk EXCEPT !.value = tokenize(last_call.arg)]
    /\ UNCHANGED <<documents, index, category_index, tag_index,
                   prev_documents, loads, wiped>>

TokNext == Tokenize

TokSpec == TokInit /\ [][TokNext]_vars

(***************************************************************************)
(* Properties.                                                             *)
(***************************************************************************)
\* the query of the search that has just completed
Q == last_call.query

\* a search whose query parsed has just completed
Searched == last_call.op = "search" /\ last_call.ok

\* the terms of the text of a document, and of a sequence of documents
DocTerms(doc) == Range(tokenize(combined_text(doc)))
TermsOf(docs) == UNION {DocTerms(docs[i]) : i \in DOMAIN docs}

\* the call returned an empty page and total = 0
EmptyResult ==
    result.kind = "ok" /\ result.documents = <<>> /\ result.total = 0

\* the engine is in the state SearchOptimizer::new constructs
EngineIsNew ==
    /\ documents = <<>>
    /\ DOMAIN index.term_documents = {}
    /\ DOMAIN index.term_frequencies = {}
    /\ index.document_terms = <<>>
    /\ index.document_lengths = <<>>
    /\ DOMAIN category_index = {}
    /\ DOMAIN tag_index = {}

\* C1: after load(L1) then load(L2), a search without filters and with
\* fuzzy off for a term that occurs in documents of L1 and in no document
\* of L2 returns no document and total = 0.
C1_ReloadReplaces ==
    (/\ Searched
     /\ Q.filters = None
     /\ ~Q.fuzzy
     /\ Len(tokenize(Q.query)) = 1
     /\ tokenize(Q.query)[1] \in TermsOf(prev_documents) \ TermsOf(documents))
    => EmptyResult

\* C2: a load whose payload fails to parse returns an error and leaves the
\* document store, the inverted index and the category and tag indexes as
\* they were; a load whose payload parses returns the number of documents
\* of the payload.
C2_LoadParseFailure ==
    [][(last_call.op = "idle" /\ last_call'.op = "load")
        => IF last_call'.ok
           THEN /\ result'.kind = "ok"
                /\ result'.count = Len(last_call'.payload)
           ELSE /\ result'.kind = "err"
                /\ engine' = engine]_vars

\* a load has just failed on an engine that holds documents and tags
C2_Witness ==
    /\ last_call.op = "load"
    /\ ~last_call.ok
    /\ result.kind = "err"
    /\ documents # <<>>
    /\ DOMAIN tag_index # {}

\* C3: while the engine is as clear() left it, every search whose query
\* parses returns an empty page and total = 0, and no error.
C3_ClearThenQuery ==
    (Searched /\ wiped # None) => EmptyResult

\* a filtered search has just completed on an engine cleared after loads
C3_Witness ==
    /\ Searched
    /\ wiped # None
    /\ wiped[1] >= 2
    /\ Q.query = T_redflat
    /\ Q.filters # None
    /\ EmptyResult

\* C4: clear() leaves the document store, the term-to-documents map, the
\* frequency tables, the per-document term sets, the length table and the
\* category and tag indexes empty, as SearchOptimizer::new does, and they
\* stay so until the next load.
C4_ClearResets ==
    (last_call.op = "clear" \/ wiped # None) => EngineIsNew

\* clear() has just completed after two or more loads
C4_Witness ==
    /\ last_call.op = "clear"
    /\ wiped # None
    /\ wiped[1] >= 2

\* C5: an unfiltered search for one term, with offset 0 and a limit of at
\* least the number of documents, returns every loaded document whose
\* title, content or tags contain that term.
C5_Recall ==
    (/\ Searched
     /\ Q.filters = None
     /\ Q.offset = 0
     /\ Q.limit >= Len(documents)
     /\ Len(tokenize(Q.query)) = 1)
    => \A i \in DOMAIN documents :
          tokenize(Q.query)[1] \in DocTerms(documents[i])
          => /\ result.kind = "ok"
             /\ \E j \in DOMAIN result.documents :
                   [result.documents[j] EXCEPT !.score = documents[i].score]
                     = documents[i]

\* C6: a search with limit = 0 returns no document, and its total is the
\* number of candidates that matched, passed the filters and passed the
\* score threshold.
C6_LimitZero ==
    (Searched /\ Q.limit = 0)
    => /\ result.kind = "ok"
       /\ result.documents = <<>>
       /\ result.total = Cardinality(RetainedIds(Q))

\* C7: on an engine loaded at most once since it was empty, for every
\* offset and limit the page is the slice [start, end) of the sorted scored
\* list with start = min(offset, total) and end = min(start + limit, total),
\* and the search does not panic; offset >= total gives an empty page.
C7_Pagination ==
    (Searched /\ loads <= 1)
    => /\ result.kind = "ok"
       /\ LET total == result.total
              start == Min(Q.offset, total)
              end   == Min(start + Q.limit, total)
          IN  /\ total = Len(result.scored_docs)
              /\ result.documents =
                    [i \in 1..(end - start) |->
                        [documents[result.scored_docs[start + i][1] + 1]
                           EXCEPT !.score = result.scored_docs[start + i][2]]]
              /\ Q.offset >= total => result.documents = <<>>

\* C8: a search whose query text has no term (empty, or runs of one
\* character only) returns no document and total = 0, fuzzy on or off.
C8_EmptyQuery ==
    (Searched /\ tokenize(Q.query) = <<>>) => EmptyResult

\* a fuzzy search with a non-empty text without terms has just completed
\* on an engine that holds documents
C8_Witness ==
    /\ Searched
    /\ tokenize(Q.query) = <<>>
    /\ Q.query # <<>>
    /\ Q.fuzzy
    /\ documents # <<>>
    /\ EmptyResult

\* C9: on an engine whose document collection is empty, every search whose
\* query parses returns an empty page and total = 0, and does not panic.
C9_EmptyCollection ==
    (Searched /\ documents = <<>>) => EmptyResult

\* a candidate survives the filters iff its category is one of the
\* requested categories (when given) and one of its tags is one of the
\* requested tags (when given), the category and the tags being those of
\* the loaded document with that id
Survives(i, filters) ==
    /\ filters.categories # None
       => /\ i < Len(documents)
          /\ documents[i + 1].category \in Range(filters.categories[1])
    /\ filters.tags # None
       => /\ i < Len(documents)
          /\ \E k \in DOMAIN documents[i + 1].tags :
                documents[i + 1].tags[k] \in Range(filters.tags[1])

\* C10: the candidates that survive the filters are the matched documents
\* whose category is one of the requested categories (when categories are
\* given) and one of whose tags is one of the requested tags (when tags are
\* given); a dimension that is not requested removes no candidate.
C10_Filtering ==
    (Searched /\ Q.filters # None)
    => LET matched == index_search(index, Q.query, Q.fuzzy, FuzzyDistance(Q))
       IN  /\ (Q.filters[1].categories = None /\ Q.filters[1].tags = None)
                 => apply_filters(matched, Q.filters[1]) = matched
           /\ apply_filters(matched, Q.filters[1])
                 = {i \in matched : Survives(i, Q.filters[1])}

\* a search has just returned a result
Returned == Searched /\ result.kind = "ok"

\* the score threshold of the query, None when the query has none
Threshold ==
    IF Q.filters # None THEN Q.filters[1].score_threshold ELSE None

\* a is below b, as numbers
Below(a, b) == ~a.nan /\ ~b.nan /\ a.v < b.v

\* the candidates whose final score is not below the threshold
Kept ==
    {doc_id \in MatchingIds(Q) :
        Threshold = None \/ ~Below(ScoreOf(Q, doc_id), Threshold[1])}

\* the ids of the scored list of the result
ScoredIds == {result.scored_docs[k][1] : k \in DOMAIN result.scored_docs}

\* C11: the score threshold acts on the boosted score and before the sort,
\* the page and the facets: a returned result scores exactly the candidates
\* whose boosted score is not below the threshold (every candidate when the
\* query has no threshold), its total is their number, its page holds only
\* such documents, and its facets count only their categories and tags.
C11_ThresholdStage ==
    Returned =>
        /\ ScoredIds = Kept
        /\ \A k \in DOMAIN result.scored_docs :
              result.scored_docs[k][2] = ScoreOf(Q, result.scored_docs[k][1])
        /\ result.total = Cardinality(Kept)
        /\ \A i \in DOMAIN result.documents :
              \E doc_id \in Kept :
                  result.documents[i] =
                      [documents[doc_id + 1] EXCEPT !.score = ScoreOf(Q, doc_id)]
        /\ result.facets # None =>
              /\ DOMAIN result.facets[1].categories =
                     {documents[doc_id + 1].category : doc_id \in Kept}
              /\ \A c \in DOMAIN result.facets[1].categories :
                     result.facets[1].categories[c] =
                         Cardinality({doc_id \in Kept :
                                        documents[doc_id + 1].category = c})
              /\ DOMAIN result.facets[1].tags =
                     UNION {Range(documents[doc_id + 1].tags) : doc_id \in Kept}

\* a search with boosts and a threshold returned: one candidate was dropped,
\* and one whose score before the boosts was below the threshold was kept
C11_Witness ==
    /\ Returned
    /\ Threshold # None
    /\ Q.boost_fields # None
    /\ MatchingIds(Q) \ ScoredIds # {}
    /\ \E doc_id \in ScoredIds :
          Below(calculate_bm25_score(index, doc_id, tokenize(Q.query)),
                Threshold[1])
    /\ result.documents # <<>>

\* the position in the scored list of the first document of the page
PageStart == StartIdx(Q, result.total)

\* C12: the scored list of a returned result (the concatenation of the
\* pages of the query) is in descending order of final score, the page is
\* the slice of it at the offset, so the page is in descending order too and
\* the score at each position is the same in every outcome of the sort; each
\* returned document carries the score computed for this query in place of
\* the score it was loaded with, its other fields unchanged.
C12_ScoreOrder ==
    Returned =>
        /\ \A i, j \in DOMAIN result.scored_docs :
              i < j => FGe(result.scored_docs[i][2], result.scored_docs[j][2])
        /\ \A i, j \in DOMAIN result.documents :
              i < j => FGe(result.documents[i].score, result.documents[j].score)
        /\ \A k \in DOMAIN result.documents :
              /\ PageStart + k \in DOMAIN result.scored_docs
              /\ result.documents[k] =
                     [documents[result.scored_docs[PageStart + k][1] + 1]
                        EXCEPT !.score =
                            ScoreOf(Q, result.scored_docs[PageStart + k][1])]
        /\ \A order \in SortedOrders(Q) :
              \A k \in DOMAIN result.documents :
                  result.documents[k].score = ScoreOf(Q, order[PageStart + k])

\* a page of two documents of different scores was returned, one of them
\* loaded with another score than the one it is returned with
C12_Witness ==
    /\ Returned
    /\ Len(result.documents) >= 2
    /\ result.documents[1].score # result.documents[2].score
    /\ \E k \in DOMAIN result.documents :
          result.documents[k].score #
              documents[result.scored_docs[PageStart + k][1] + 1].score

\* C13: a returned result has facets exactly when the query supplied
\* filters; the facets are counted over the whole scored list, whatever the
\* offset and the limit: the count of a category or of a tag is the number
\* of scored documents that have it.  Stated of an engine loaded at most
\* once since it was new or cleared.
C13_Facets ==
    (Returned /\ loads <= 1) =>
        /\ result.facets # None <=> Q.filters # None
        /\ result.facets # None =>
              /\ DOMAIN result.facets[1].categories =
                     {documents[doc_id + 1].category : doc_id \in ScoredIds}
              /\ \A c \in DOMAIN result.facets[1].categories :
                     result.facets[1].categories[c] =
                         Cardinality({doc_id \in ScoredIds :
                                        documents[doc_id + 1].category = c})
              /\ DOMAIN result.facets[1].tags =
                     UNION {Range(documents[doc_id + 1].tags) :
                              doc_id \in ScoredIds}
              /\ \A t \in DOMAIN result.facets[1].tags :
                     result.facets[1].tags[t] =
                         Cardinality({doc_id \in ScoredIds :
                                        t \in Range(documents[doc_id + 1].tags)})

RECURSIVE SumCounts(_)
\* the sum of the counts of a facet
SumCounts(counts) ==
    IF DOMAIN counts = {} THEN 0
    ELSE LET k == CHOOSE x \in DOMAIN counts : TRUE
         IN  counts[k]
             + SumCounts([x \in DOMAIN counts \ {k} |-> counts[x]])

\* C14: in a returned result with facets the category counts sum to total,
\* and the tag counts sum to at least the number of scored documents that
\* have a tag.
C14_FacetSums ==
    (Returned /\ result.facets # None) =>
        /\ SumCounts(result.facets[1].categories) = result.total
        /\ SumCounts(result.facets[1].tags) >=
               Cardinality({doc_id \in ScoredIds :
                              documents[doc_id + 1].tags # <<>>})

\* facets were returned for two scored documents of one category, one with
\* several tags and one with none
C14_Witness ==
    /\ Returned
    /\ result.facets # None
    /\ result.total = 2
    /\ Cardinality(DOMAIN result.facets[1].categories) = 1
    /\ \E doc_id \in ScoredIds : documents[doc_id + 1].tags = <<>>
    /\ \E doc_id \in ScoredIds : Len(documents[doc_id + 1].tags) >= 2

\* get_suggestions has just completed
Suggested == last_call.op = "suggest"

\* C15: get_suggestions(prefix, limit) returns min(limit, number of indexed
\* terms with the prefix) distinct indexed terms that start with the
\* lowercased prefix, in descending order of document count, and no indexed
\* term with the prefix that is left out is in more documents than a
\* returned one.  Stated of an engine loaded at most once and of a limit
\* whose double fits the machine integer.
C15_Suggestions ==
    (Suggested /\ loads <= 1 /\ ~MulOverflows(last_call.arg[2])) =>
        LET prefix   == last_call.arg[1]
            limit    == last_call.arg[2]
            terms    == result.value
            returned == Range(terms)
        IN  /\ result.kind = "ok"
            /\ returned \subseteq PrefixTerms(prefix)
            /\ Len(terms) = Min(limit, Cardinality(PrefixTerms(prefix)))
            /\ Cardinality(returned) = Len(terms)
            /\ \A i, j \in DOMAIN terms :
                  i < j => DocCount(terms[i]) >= DocCount(terms[j])
            /\ \A out \in PrefixTerms(prefix) \ returned :
                  \A t \in returned : DocCount(out) <= DocCount(t)

\* batch_score has just returned its lists
Batched ==
    last_call.op = "batch_score" /\ last_call.ok /\ result.kind = "ok"

\* the query search is given for one text of a batch: no filters, no
\* boosts, fuzzy off, offset 0 and a limit no less than the collection
PlainQuery(query_str) ==
    Query(query_str, None, UsizeMax, 0, None, FALSE, None)

\* the pairs of external id and score of the page of a search result
PagePairs(out) ==
    [i \in DOMAIN out.documents |->
        <<out.documents[i].id, out.documents[i].score>>]

\* C16: batch_score returns one list per query, in input order, and the
\* list of a query q agrees with every result search can return for q with
\* no filters, no boosts, fuzzy off, offset 0 and a limit no less than the
\* collection: search returns, its page has the same pairs of external id
\* and score and the same score at every position (descending), and one of
\* its results is the list itself.
C16_BatchAgrees ==
    Batched =>
        /\ Len(result.value) = Len(last_call.arg)
        /\ \A k \in DOMAIN last_call.arg :
              LET q == PlainQuery(last_call.arg[k])
              IN  /\ ~ScoringPanics(q)
                  /\ ~SortPanics(q)
                  /\ \A order \in SortedOrders(q) :
                        LET out == SearchOutcome(q, order)
                        IN  /\ out.kind = "ok"
                            /\ Len(out.documents) = Len(result.value[k])
                            /\ Range(PagePairs(out)) = Range(result.value[k])
                            /\ \A i \in DOMAIN out.documents :
                                  out.documents[i].score = result.value[k][i][2]
                  /\ \E order \in SortedOrders(q) :
                        PagePairs(SearchOutcome(q, order)) = result.value[k]
                  /\ \A i, j \in DOMAIN result.value[k] :
                        i < j => FGe(result.value[k][i][2], result.value[k][j][2])

\* a batch of two queries returned two different lists, the first of two
\* documents of different scores
C16_Witness ==
    /\ Batched
    /\ Len(result.value) = 2
    /\ Len(result.value[1]) = 2
    /\ result.value[1][1][2] # result.value[1][2][2]
    /\ result.value[2] # <<>>
    /\ result.value[2] # result.value[1]

\* get_index_stats has just returned
StatsReturned == last_call.op = "stats" /\ result.kind = "ok"

\* the number of tokens of the text of a document
DocLength(doc) == Len(tokenize(combined_text(doc)))

\* C17: get_index_stats describes the collection that is loaded, whatever
\* loads and clears came before: the number of documents, the number of
\* distinct terms of their texts, their average length in tokens (0 when
\* there is none), and the numbers of their distinct categories and tags.
C17_Stats ==
    StatsReturned =>
        /\ result.value.total_documents = Len(documents)
        /\ result.value.total_terms = Cardinality(TermsOf(documents))
        /\ result.value.avg_document_length =
               IF documents = <<>> THEN 0
               ELSE (1000 * SumSeq([i \in DOMAIN documents |->
                                      DocLength(documents[i])]))
                    \div Len(documents)
        /\ result.value.categories =
               Cardinality({documents[i].category : i \in DOMAIN documents})
        /\ result.value.tags =
               Cardinality(UNION {Range(documents[i].tags) :
                                    i \in DOMAIN documents})

\* the boosts of the query without the entry of the title
BoostsWithoutTitle ==
    Some([k \in DOMAIN Q.boost_fields[1] \ {TitleKey} |-> Q.boost_fields[1][k]])

\* C18: the title boost is applied only to a document whose title contains
\* the query text (case-insensitive): in a returned result of a query with
\* a title boost, a scored document whose title does not contain the query
\* text has the score its category and tag boosts alone give it.  Stated of
\* an engine loaded at most once since it was new or cleared.
C18_TitleBoost ==
    (/\ Returned
     /\ loads <= 1
     /\ Q.boost_fields # None
     /\ TitleKey \in DOMAIN Q.boost_fields[1]) =>
        \A k \in DOMAIN result.scored_docs :
            LET doc_id == result.scored_docs[k][1]
                doc    == documents[doc_id + 1]
            IN  ~Contains(ToLowercase(doc.title), ToLowercase(Q.query)) =>
                    result.scored_docs[k][2] =
                        apply_boost(doc_id,
                                    calculate_bm25_score(index, doc_id,
                                                         tokenize(Q.query)),
                                    BoostsWithoutTitle)

\* the step is a call of search, get_suggestions, batch_score or
\* get_index_stats
ReadCall ==
    /\ last_call.op = "idle"
    /\ last_call'.op \in {"search", "suggest", "batch_score", "stats"}

\* the call of the step leaves the engine as it was, and a call whose
\* argument does not parse returns an error and nothing else
ReadOnlyStep ==
    /\ engine' = engine
    /\ ~last_call'.ok => result' = Err

\* the ids of the documents of equal score that the sort may put in any order
\* on the two sides of the end of the page
TieAtPageEnd(q, out) ==
    \E k \in DOMAIN out.documents :
        \E j \in DOMAIN out.scored_docs :
            /\ j > StartIdx(q, out.total) + Len(out.documents)
               \/ j <= StartIdx(q, out.total)
            /\ out.scored_docs[j][2] = out.documents[k].score

\* the outcomes of the sort other than the one the result out came from
OtherOrders(q, out) ==
    SortedOrders(q)
        \ {[k \in DOMAIN out.scored_docs |-> out.scored_docs[k][1]]}

ContainingIds ==
    {i \in 0..(Len(documents) - 1) :
        DocTerms(documents[i + 1]) \cap Range(tokenize(Q.query)) # {}}

\* C20: with fuzzy off the match stage returns exactly the ids of the stored
\* documents that contain at least one term of the query, and an unfiltered
\* search returns a result whose total is their number and whose documents
\* each contain a term of the query.
C20_OrMatch ==
    (Searched /\ ~Q.fuzzy) =>
        /\ index_search(index, Q.query, FALSE, FuzzyDistance(Q)) = ContainingIds
        /\ (Q.filters = None /\ ~AddOverflows(Q, Cardinality(ContainingIds))) =>
              /\ result.kind = "ok"
              /\ result.total = Cardinality(ContainingIds)
              /\ \A k \in DOMAIN result.documents :
                    DocTerms(result.documents[k]) \cap Range(tokenize(Q.query))
                        # {}

RECURSIVE Levenshtein(_, _)
\* the edit distance of two character sequences: the least number of
\* insertions, deletions and substitutions of one character
Levenshtein(a, b) ==
    IF a = <<>> THEN Len(b)
    ELSE IF b = <<>> THEN Len(a)
    ELSE Min(Min(Levenshtein(Tail(a), b) + 1, Levenshtein(a, Tail(b)) + 1),
             Levenshtein(Tail(a), Tail(b))
                 + (IF Head(a) = Head(b) THEN 0 ELSE 1))

\* the stored documents, by internal id, that contain a term within edit
\* distance d of a term of the query
NearIds(d) ==
    {i \in 0..(Len(documents) - 1) :
        \E t \in DocTerms(documents[i + 1]) :
            \E qt \in Range(tokenize(Q.query)) : Levenshtein(qt, t) <= d}

\* C21: with fuzzy on and distance d the match stage returns exactly the ids
\* of the stored documents that contain a term within edit distance d of a
\* term of the query; the set includes the match set with fuzzy off and
\* the match set of every smaller distance.
C21_FuzzyMatch ==
    (Searched /\ Q.fuzzy) =>
        LET d == FuzzyDistance(Q)
        IN  /\ index_search(index, Q.query, TRUE, d) = NearIds(d)
            /\ index_search(index, Q.query, FALSE, d)
                   \subseteq index_search(index, Q.query, TRUE, d)
            /\ \A smaller \in 0..d :
                   index_search(index, Q.query, TRUE, smaller)
                       \subseteq index_search(index, Q.query, TRUE, d)

\* C22: in every state, a term has a document set exactly when it has a
\* frequency table, an internal id is in the document set of a term exactly
\* when the frequency table of the term has an entry for it, and every
\* entry is at least 1.
C22_FrequencyEntries ==
    /\ DOMAIN index.term_documents = DOMAIN index.term_frequencies
    /\ \A t \in DOMAIN index.term_documents :
          /\ index.term_documents[t] = DOMAIN index.term_frequencies[t]
          /\ \A i \in DOMAIN index.term_frequencies[t] :
                index.term_frequencies[t][i] >= 1

\* after a second load a term is in two documents, in one of them twice
C22_Witness ==
    /\ loads = 2
    /\ \E t \in DOMAIN index.term_documents :
          /\ Cardinality(index.term_documents[t]) = 2
          /\ \E i \in index.term_documents[t] :
                index.term_frequencies[t][i] = 2

RECURSIVE FrequencySum(_, _)
\* the sum over the terms of the set terms of the frequency recorded for
\* the internal id i
FrequencySum(terms, i) ==
    IF terms = {} THEN 0
    ELSE LET t == CHOOSE x \in terms : TRUE
         IN  (IF i \in DOMAIN index.term_frequencies[t]
              THEN index.term_frequencies[t][i] ELSE 0)
             + FrequencySum(terms \ {t}, i)

\* C23: in every state, for every internal id with a slot in the length
\* table, the length recorded equals the sum over all terms of the
\* frequency recorded for the id, the id is the id of a stored document,
\* and the length is the number of tokens of the text of that document.
C23_Lengths ==
    \A i \in 0..(Len(index.document_lengths) - 1) :
        /\ index.document_lengths[i + 1] =
               FrequencySum(DOMAIN index.term_frequencies, i)
        /\ i < Len(documents)
        /\ index.document_lengths[i + 1] = DocLength(documents[i + 1])

\* the ids a map from keys to id sets holds under key
Bucket(map, key) == IF key \in DOMAIN map THEN map[key] ELSE {}

\* the categories and the tags the attribute indexes and the stored
\* documents know
KnownCategories ==
    DOMAIN category_index \cup {documents[i].category : i \in DOMAIN documents}
KnownTags ==
    DOMAIN tag_index \cup UNION {Range(documents[i].tags) : i \in DOMAIN documents}

\* C24: in every state the attribute indexes match the stored documents:
\* the bucket of a category holds exactly the internal ids of the stored
\* documents of that category, and the bucket of a tag exactly the internal
\* ids of the stored documents that have the tag.
C24_AttributeIndexes ==
    /\ \A c \in KnownCategories :
          Bucket(category_index, c) =
              {i \in 0..(Len(documents) - 1) : documents[i + 1].category = c}
    /\ \A g \in KnownTags :
          Bucket(tag_index, g) =
              {i \in 0..(Len(documents) - 1) :
                  g \in Range(documents[i + 1].tags)}

\* C25: the BM25 score of a stored document that contains none of the
\* terms of the query is exactly 0.
C25_DisjointScore ==
    Searched =>
        \A i \in 0..(Len(documents) - 1) :
            (/\ i < Len(index.document_lengths)
             /\ DocTerms(documents[i + 1]) \cap Range(tokenize(Q.query)) = {})
            => calculate_bm25_score(index, i, tokenize(Q.query)) = Num(0)

\* levenshtein_distance has just returned
Measured == last_call.op = "distance"

\* C26: the edit distance is symmetric, zero on equal strings and only on
\* them, and against the empty string it is the length of the other string
\* (its number of characters, or of bytes as str::len counts).
C26_DistanceLaws ==
    Measured =>
        LET a == last_call.arg[1]
            b == last_call.arg[2]
        IN  /\ result.value = levenshtein_distance(b, a)
            /\ a = b => result.value = 0
            /\ result.value = 0 => a = b
            /\ a = <<>> => result.value \in {Len(b), ByteLen(b)}

\* C27: the edit distance of two strings is the Levenshtein distance of
\* their character sequences, characters of several bytes included.
C27_DistanceOnCharacters ==
    Measured =>
        result.value = Levenshtein(last_call.arg[1], last_call.arg[2])

\* tokenize has just returned
Tokenized == last_call.op = "tokenize"

\* the last position of the run of alphanumeric characters of s that
\* starts at position pos
RunEnd(s, pos) ==
    CHOOSE j \in pos..Len(s) :
        /\ \A k \in pos..j : IsAlphanumeric(s[k])
        /\ j = Len(s) \/ ~IsAlphanumeric(s[j + 1])

RECURSIVE LongRuns(_, _)
\* the maximal runs of alphanumeric characters of s from position pos on,
\* in their order, without the runs of at most one character
LongRuns(s, pos) ==
    IF pos > Len(s) THEN <<>>
    ELSE IF ~IsAlphanumeric(s[pos]) THEN LongRuns(s, pos + 1)
    ELSE LET end == RunEnd(s, pos)
         IN  (IF end > pos THEN <<SubSeq(s, pos, end)>> ELSE <<>>)
             \o LongRuns(s, end + 1)

\* C28: the tokenizer returns the lowercased maximal runs of alphanumeric
\* characters of the text, in their order and with duplicates, without the
\* runs of at most one character, whatever the number of bytes of the
\* character.
C28_Tokens ==
    Tokenized =>
        result.value =
            [k \in DOMAIN LongRuns(last_call.arg, 1) |->
                ToLowercase(LongRuns(last_call.arg, 1)[k])]

\* the internal ids held by the inverted index and the attribute indexes
HeldIds ==
    UNION ({index.term_documents[t] : t \in DOMAIN index.term_documents}
           \cup {DOMAIN index.term_frequencies[t] :
                    t \in DOMAIN index.term_frequencies}
           \cup {category_index[c] : c \in DOMAIN category_index}
           \cup {tag_index[g] : g \in DOMAIN tag_index})

\* C29: in every state reached by loads and clears, every internal id held
\* in a document set, a frequency table, a category bucket or a tag bucket
\* is smaller than the number of stored documents and the length table has
\* one slot per stored document, so that no candidate of a search or of a
\* batch text indexes the length table or the document store out of range,
\* also when a load of fewer documents follows a load of more.
C29_IdsInRange ==
    /\ \A i \in HeldIds : i < Len(documents)
    /\ Len(index.document_lengths) = Len(documents)
    /\ Searched =>
          \A doc_id \in MatchingIds(Q) :
              doc_id < Len(index.document_lengths) /\ doc_id < Len(documents)
    /\ last_call.op = "batch_score" /\ last_call.ok =>
          \A k \in DOMAIN last_call.arg :
              \A doc_id \in BatchIds(last_call.arg[k]) :
                  doc_id < Len(index.document_lengths)
                  /\ doc_id < Len(documents)

\* the candidates of the query that are in the match set only through a
\* term near a term of the query: the stored document contains no term of
\* the query, and no document set of a term of the query holds the id
FuzzyOnlyIds ==
    {i \in MatchingIds(Q) :
        /\ i < Len(documents)
        /\ DocTerms(documents[i + 1]) \cap Range(tokenize(Q.query)) = {}
        /\ \A qt \in Range(tokenize(Q.query)) :
              i \notin Bucket(index.term_documents, qt)}

\* C30: scoring uses the exact terms of the query only.  In a returned
\* fuzzy search a candidate that is in the match set only through a near
\* term (it contains no term of the query verbatim) has the BM25 score 0,
\* its score in the scored list is 0 whatever the boosts, and with a score
\* threshold above 0 it is in neither the scored list nor the page, the
\* total counts none of them and the facets count only the other
\* candidates.
C30_FuzzyOnlyScore ==
    (Returned /\ Q.fuzzy) =>
        /\ \A i \in FuzzyOnlyIds :
              /\ calculate_bm25_score(index, i, tokenize(Q.query)) = Num(0)
              /\ \A k \in DOMAIN result.scored_docs :
                    result.scored_docs[k][1] = i
                        => result.scored_docs[k][2] = Num(0)
        /\ (Threshold # None /\ Below(Num(0), Threshold[1])) =>
              /\ ScoredIds \cap FuzzyOnlyIds = {}
              /\ \A k \in DOMAIN result.documents :
                    \A i \in FuzzyOnlyIds :
                        result.documents[k].id # documents[i + 1].id
              /\ result.total
                     <= Cardinality(MatchingIds(Q) \ FuzzyOnlyIds)
              /\ result.facets # None =>
                    /\ DOMAIN result.facets[1].categories \subseteq
                           {documents[i + 1].category :
                               i \in ScoredIds \ FuzzyOnlyIds}
                    /\ DOMAIN result.facets[1].tags \subseteq
                           UNION {Range(documents[i + 1].tags) :
                                     i \in ScoredIds \ FuzzyOnlyIds}

\* a fuzzy search with boosts and a threshold above 0 returned: a stored
\* document that contains no term of the query was a candidate through a
\* near term, its boosted score was 0 and it is not in the scored list
C30_Witness ==
    /\ Returned
    /\ Q.fuzzy
    /\ Q.boost_fields # None
    /\ Threshold # None
    /\ Below(Num(0), Threshold[1])
    /\ \E i \in FuzzyOnlyIds :
          /\ ScoreOf(Q, i) = Num(0)
          /\ i \notin ScoredIds
    /\ loads = 1

====
